---- MODULE Spec2Model ----
(***************************************************************************)
(* Model of tidal-wave: the 34-byte device-configuration codec             *)
(* (usb_device.rs), the sparse Line patch/diff model (ui_state.rs) and the *)
(* two reconciliation loops (stdio.rs).                                    *)
(*                                                                         *)
(* Option<T> is modelled as a sequence: <<>> is None, <<v>> is Some(v).    *)
(* A [u8; 34] buffer is a function on 0..33, a Color is a 3-tuple of bytes.*)
(* anyhow::Result<T> is a record [ok |-> TRUE, val |-> v] or               *)
(* [ok |-> FALSE, err |-> message].                                        *)
(***************************************************************************)
EXTENDS Integers, Sequences, FiniteSets, TLC

\* ------------------------------------------------------------------ bounds
\* Number of fields in which a generated Configuration (or snapshot) may
\* deviate from DeviceConfiguration::default().
MaxVaried == 1

\* ---------------------------------------------------------- basic values
None == <<>>

Some(v) == <<v>>

Ok(v) == [ok |-> TRUE, val |-> v]

Err(e) == [ok |-> FALSE, err |-> e]

BufLen == 34

Offsets == 0..(BufLen - 1)

\* The 13 domain fields of DeviceConfiguration / Line, in declaration order.
Fields ==
  <<"gain", "mute", "clipguard", "phantom", "lowcut", "volume", "mix",
    "color_mute", "color_gen", "gain_lock", "color_gain_reduction",
    "clipguard_indicator", "lim">>

FieldSet == {Fields[i] : i \in 1..Len(Fields)}

\* enum LowcutFilter
LowcutFilter == {"Off", "Cutoff080Hz", "Cutoff120Hz"}

\* `lowcut as u16`: the #[repr(u16)] discriminants of LowcutFilter.
LowcutAsU16(l) ==
  CASE l = "Off"         -> 0
    [] l = "Cutoff080Hz" -> 256
    [] l = "Cutoff120Hz" -> 1

\* #[derive(Default)] for DeviceConfiguration
DefaultConfig ==
  [gain |-> 0, mute |-> FALSE, clipguard |-> FALSE, phantom |-> FALSE,
   lowcut |-> "Off", volume |-> 0, mix |-> 0,
   color_mute |-> <<0, 0, 0>>, color_gen |-> <<0, 0, 0>>,
   gain_lock |-> FALSE, color_gain_reduction |-> <<0, 0, 0>>,
   clipguard_indicator |-> FALSE, lim |-> FALSE]

\* #[derive(Default)] for Line: every Option is None.
DefaultLine ==
  [gain |-> None, mute |-> None, clipguard |-> None, phantom |-> None,
   lowcut |-> None, volume |-> None, mix |-> None,
   color_mute |-> None, color_gen |-> None,
   gain_lock |-> None, color_gain_reduction |-> None,
   clipguard_indicator |-> None, lim |-> None,
   persistent |-> None, use_cached |-> None, err |-> None]

\* ------------------------------------------------------------------ codec
\* u16::to_be_bytes in the place of to_le_bytes.
U16ToLe_Be(x) == <<(x \div 256) % 256, x % 256>>

\* u16::to_le_bytes
U16ToLe(x) == <<x % 256, (x \div 256) % 256>>

\* i16::to_le_bytes (two's complement)
I16ToLe(x) == U16ToLe((x + 65536) % 65536)

\* u16::from_le_bytes
U16FromLe(d) == d[1] + 256 * d[2]

\* i16::from_le_bytes
I16FromLe(d) ==
  LET u == U16FromLe(d) IN IF u >= 32768 THEN u - 65536 ELSE u

\* `b as u8` for a bool
BoolAsU8(b) == IF b THEN 1 ELSE 0

\* read_field::<OFFSET, LEN, _>(buf, f): the LEN bytes at OFFSET (f is
\* applied by the caller).
read_field(buf, OFFSET, LEN) == [i \in 1..LEN |-> buf[OFFSET + i - 1]]

\* try_read_field::<OFFSET, LEN, _, _>(buf, typ, f): res is f's result.
try_read_field(OFFSET, LEN, typ, res) ==
  IF res.ok THEN Ok(res.val)
  ELSE Err(<<"expected", typ, "at", OFFSET, LEN, "got", res.err>>)

\* read_bool taking every non-zero byte as true.
read_bool_NonZero(buf, OFFSET) ==
  LET b == read_field(buf, OFFSET, 1)[1] IN
  try_read_field(OFFSET, 1, "bool", IF b = 0 THEN Ok(FALSE) ELSE Ok(TRUE))

\* read_bool::<OFFSET, LEN>(buf): always passes LEN = 1 and typ = "bool".
read_bool(buf, OFFSET) ==
  LET b == read_field(buf, OFFSET, 1)[1] IN
  try_read_field(OFFSET, 1, "bool",
                 IF b = 0 THEN Ok(FALSE)
                 ELSE IF b = 1 THEN Ok(TRUE)
                 ELSE Err(b))

\* The closure passed for lowcut in DeviceConfiguration::read.
read_lowcut(buf) ==
  LET u == U16FromLe(read_field(buf, 7, 2)) IN
  try_read_field(7, 2, "Lowcut Filter",
                 IF u = 0 THEN Ok("Off")
                 ELSE IF u = 1 THEN Ok("Cutoff080Hz")
                 ELSE IF u = 256 THEN Ok("Cutoff120Hz")
                 ELSE Err(u))

\* Color::read taking color_gen from its second copy at bytes 21-23.
Color_read_SecondCopy(buf, OFFSET) ==
  read_field(buf, IF OFFSET = 18 THEN OFFSET + 3 ELSE OFFSET, 3)

\* Color::read::<OFFSET, LEN>(buf): reads 3 bytes whatever LEN is.
Color_read(buf, OFFSET) == read_field(buf, OFFSET, 3)

\* DeviceConfiguration::read: fields are evaluated in order and the first
\* failing `?` returns its error.
DeviceConfiguration_read(buf) ==
  LET mute == read_bool(buf, 4)
      clipguard == read_bool(buf, 5)
      phantom == read_bool(buf, 6)
      lowcut == read_lowcut(buf)
      gain_lock == read_bool(buf, 28)
      clipguard_indicator == read_bool(buf, 32)
      lim == read_bool(buf, 33)
  IN  IF ~mute.ok THEN Err(mute.err)
      ELSE IF ~clipguard.ok THEN Err(clipguard.err)
      ELSE IF ~phantom.ok THEN Err(phantom.err)
      ELSE IF ~lowcut.ok THEN Err(lowcut.err)
      ELSE IF ~gain_lock.ok THEN Err(gain_lock.err)
      ELSE IF ~clipguard_indicator.ok THEN Err(clipguard_indicator.err)
      ELSE IF ~lim.ok THEN Err(lim.err)
      ELSE Ok([gain |-> U16FromLe(read_field(buf, 0, 2)),
               mute |-> mute.val,
               clipguard |-> clipguard.val,
               phantom |-> phantom.val,
               lowcut |-> lowcut.val,
               volume |-> I16FromLe(read_field(buf, 9, 2)),
               mix |-> read_field(buf, 13, 1)[1],
               color_mute |-> Color_read(buf, 15),
               color_gen |-> Color_read(buf, 18),
               gain_lock |-> gain_lock.val,
               color_gain_reduction |-> Color_read(buf, 29),
               clipguard_indicator |-> clipguard_indicator.val,
               lim |-> lim.val])

\* write_field copying only the first byte of src.
write_field_FirstByte(buf, OFFSET, src) ==
  [i \in Offsets |-> IF i = OFFSET THEN src[1] ELSE buf[i]]

\* write_field::<OFFSET, LEN>(buf, src)
write_field(buf, OFFSET, src) ==
  [i \in Offsets |->
     IF i >= OFFSET /\ i < OFFSET + Len(src) THEN src[i - OFFSET + 1]
     ELSE buf[i]]

\* MixFlag with the arm `41 | 47` reduced to 41.
MixFlag_Only41(mix) == IF mix = 41 THEN 1 ELSE 0

\* The value-dependent flag byte at offset 12.
MixFlag(mix) == IF mix = 41 \/ mix = 47 THEN 1 ELSE 0

\* DeviceConfiguration::write(&self, buf)
DeviceConfiguration_write(self, buf) ==
  LET b01 == write_field(buf, 0, U16ToLe(self.gain))
      b02 == write_field(b01, 2, <<0, 236>>)
      b03 == write_field(b02, 4, <<BoolAsU8(self.mute)>>)
      b04 == write_field(b03, 5, <<BoolAsU8(self.clipguard)>>)
      b05 == write_field(b04, 6, <<BoolAsU8(self.phantom)>>)
      b06 == write_field(b05, 7, U16ToLe(LowcutAsU16(self.lowcut)))
      b07 == write_field(b06, 9, I16ToLe(self.volume))
      b08 == write_field(b07, 11, <<0>>)
      b09 == write_field(b08, 12, <<MixFlag(self.mix)>>)
      b10 == write_field(b09, 13, <<self.mix>>)
      b11 == write_field(b10, 14, <<1>>)
      b12 == write_field(b11, 15, self.color_mute)
      b13 == write_field(b12, 18, self.color_gen)
      b14 == write_field(b13, 21, self.color_gen)
      b15 == write_field(b14, 24, self.color_gen)
      b16 == write_field(b15, 27, <<1>>)
      b17 == write_field(b16, 28, <<BoolAsU8(self.gain_lock)>>)
      b18 == write_field(b17, 29, self.color_gain_reduction)
      b19 == write_field(b18, 32, <<BoolAsU8(self.clipguard_indicator)>>)
      b20 == write_field(b19, 33, <<BoolAsU8(self.lim)>>)
  IN  b20

\* `let mut buf = [0; 34]` in Device::write_config
ZeroBuf == [i \in Offsets |-> 0]

\* ------------------------------------------------------ patch model
\* merge combining mute with the present value instead of replacing it.
merge_Toggle(self, user_config) ==
  [f \in FieldSet |->
     IF user_config[f] = None THEN self[f]
     ELSE IF f = "mute" THEN (self.mute # user_config.mute[1])
     ELSE user_config[f][1]]

\* DeviceConfiguration::merge(&mut self, user_config): the value of self
\* afterwards.  persistent, use_cached and err are bound to `_`.
merge(self, user_config) ==
  [gain |-> IF user_config.gain # None THEN user_config.gain[1] ELSE self.gain,
   mute |-> IF user_config.mute # None THEN user_config.mute[1] ELSE self.mute,
   clipguard |-> IF user_config.clipguard # None THEN user_config.clipguard[1] ELSE self.clipguard,
   phantom |-> IF user_config.phantom # None THEN user_config.phantom[1] ELSE self.phantom,
   lowcut |-> IF user_config.lowcut # None THEN user_config.lowcut[1] ELSE self.lowcut,
   volume |-> IF user_config.volume # None THEN user_config.volume[1] ELSE self.volume,
   mix |-> IF user_config.mix # None THEN user_config.mix[1] ELSE self.mix,
   color_mute |-> IF user_config.color_mute # None THEN user_config.color_mute[1] ELSE self.color_mute,
   color_gen |-> IF user_config.color_gen # None THEN user_config.color_gen[1] ELSE self.color_gen,
   gain_lock |-> IF user_config.gain_lock # None THEN user_config.gain_lock[1] ELSE self.gain_lock,
   color_gain_reduction |-> IF user_config.color_gain_reduction # None THEN user_config.color_gain_reduction[1] ELSE self.color_gain_reduction,
   clipguard_indicator |-> IF user_config.clipguard_indicator # None THEN user_config.clipguard_indicator[1] ELSE self.clipguard_indicator,
   lim |-> IF user_config.lim # None THEN user_config.lim[1] ELSE self.lim]

\* DiffField with the changed-value arm returning the value without storing it
\* in the snapshot.
DiffField_NoStore(value, stored) ==
  CASE stored # None /\ value # stored[1] -> [snap |-> stored, out |-> Some(value)]
    [] stored = None                       -> [snap |-> Some(value), out |-> Some(value)]
    [] OTHER                               -> [snap |-> stored, out |-> None]

\* DiffField reporting every value, changed or not.
DiffField_Always(value, stored) ==
  [snap |-> Some(value), out |-> Some(value)]

\* DiffField reporting a value only when the snapshot has none.
DiffField_FreshOnly(value, stored) ==
  CASE stored = None -> [snap |-> Some(value), out |-> Some(value)]
    [] OTHER         -> [snap |-> Some(value), out |-> None]

\* DiffField storing a first value without reporting it.
DiffField_QuietFirst(value, stored) ==
  CASE stored # None /\ value # stored[1] -> [snap |-> Some(value), out |-> Some(value)]
    [] stored = None                       -> [snap |-> Some(value), out |-> None]
    [] OTHER                               -> [snap |-> stored, out |-> None]

\* One `match` of UiState::update_device_info: `stored` is the snapshot's
\* Option for the field, `value` the field of config.  snap is the snapshot's
\* Option afterwards, out the Option put into the returned Line.
DiffField(value, stored) ==
  CASE stored # None /\ value # stored[1] -> [snap |-> Some(value), out |-> Some(value)]
    [] stored = None                       -> [snap |-> Some(value), out |-> Some(value)]
    [] OTHER                               -> [snap |-> stored, out |-> None]

\* update_device_info copying io.err into the Line with err.clone() instead
\* of moving it out with err.take().
update_device_info_KeepErr(self, config) ==
  LET d == [f \in FieldSet |-> DiffField(config[f], self.io[f])] IN
  [state |-> [cached |-> config,
              io |-> [f \in DOMAIN self.io |->
                        IF f \in FieldSet THEN d[f].snap ELSE self.io[f]]],
   line |-> [f \in DOMAIN self.io |->
               IF f \in FieldSet THEN d[f].out
               ELSE IF f = "err" THEN self.io.err ELSE None]]

\* update_device_info returning a Line that carries the two directives.
update_device_info_Directives(self, config) ==
  LET d == [f \in FieldSet |-> DiffField(config[f], self.io[f])] IN
  [state |-> [cached |-> config,
              io |-> [f \in DOMAIN self.io |->
                        IF f \in FieldSet THEN d[f].snap
                        ELSE IF f = "err" THEN None ELSE self.io[f]]],
   line |-> [f \in DOMAIN self.io |->
               IF f \in FieldSet THEN d[f].out
               ELSE IF f = "err" THEN self.io.err ELSE Some(FALSE)]]

\* update_device_info computing the Line from self.cached instead of config.
update_device_info_Cached(self, config) ==
  LET d == [f \in FieldSet |-> DiffField(self.cached[f], self.io[f])] IN
  [state |-> [cached |-> config,
              io |-> [f \in DOMAIN self.io |->
                        IF f \in FieldSet THEN d[f].snap
                        ELSE IF f = "err" THEN None ELSE self.io[f]]],
   line |-> [f \in DOMAIN self.io |->
               IF f \in FieldSet THEN d[f].out
               ELSE IF f = "err" THEN self.io.err ELSE None]]

\* UiState::update_device_info(&mut self, config) -> Line.  self is the
\* UiState [cached, io]; the result gives the UiState afterwards and the
\* returned Line.  err.take() moves io.err into the Line and leaves None.
update_device_info(self, config) ==
  LET gain == DiffField(config.gain, self.io.gain)
      mute == DiffField(config.mute, self.io.mute)
      clipguard == DiffField(config.clipguard, self.io.clipguard)
      phantom == DiffField(config.phantom, self.io.phantom)
      lowcut == DiffField(config.lowcut, self.io.lowcut)
      volume == DiffField(config.volume, self.io.volume)
      mix == DiffField(config.mix, self.io.mix)
      color_mute == DiffField(config.color_mute, self.io.color_mute)
      color_gen == DiffField(config.color_gen, self.io.color_gen)
      gain_lock == DiffField(config.gain_lock, self.io.gain_lock)
      color_gain_reduction == DiffField(config.color_gain_reduction, self.io.color_gain_reduction)
      clipguard_indicator == DiffField(config.clipguard_indicator, self.io.clipguard_indicator)
      lim == DiffField(config.lim, self.io.lim)
  IN  [state |-> [cached |-> config,
                  io |-> [gain |-> gain.snap,
                       mute |-> mute.snap,
                       clipguard |-> clipguard.snap,
                       phantom |-> phantom.snap,
                       lowcut |-> lowcut.snap,
                       volume |-> volume.snap,
                       mix |-> mix.snap,
                       color_mute |-> color_mute.snap,
                       color_gen |-> color_gen.snap,
                       gain_lock |-> gain_lock.snap,
                       color_gain_reduction |-> color_gain_reduction.snap,
                       clipguard_indicator |-> clipguard_indicator.snap,
                       lim |-> lim.snap,
                       persistent |-> self.io.persistent,
                       use_cached |-> self.io.use_cached,
                       err |-> None]],
       line |-> [gain |-> gain.out,
               mute |-> mute.out,
               clipguard |-> clipguard.out,
               phantom |-> phantom.out,
               lowcut |-> lowcut.out,
               volume |-> volume.out,
               mix |-> mix.out,
               color_mute |-> color_mute.out,
               color_gen |-> color_gen.out,
               gain_lock |-> gain_lock.out,
               color_gain_reduction |-> color_gain_reduction.out,
               clipguard_indicator |-> clipguard_indicator.out,
               lim |-> lim.out,
               persistent |-> None,
               use_cached |-> None,
               err |-> self.io.err]]

\* update_state with the `if let Some(lim)` of merge left out.
update_state_NoLim(self, line) ==
  LET merged == [merge(self.cached, line) EXCEPT !.lim = self.cached.lim]
  IN  [state |-> [cached |-> merged, io |-> self.io], config |-> merged]

\* update_state merging into a copy and leaving self.cached as it was.
update_state_Copy(self, line) ==
  [state |-> self, config |-> merge(self.cached, line)]

\* UiState::update_state(&mut self, line) -> DeviceConfiguration
update_state(self, line) ==
  LET merged == merge(self.cached, line)
  IN  [state |-> [cached |-> merged, io |-> self.io], config |-> merged]

\* Line::is_empty without the test of err.
is_empty_FieldsOnly(line) == \A f \in FieldSet : line[f] = None

\* Line::is_empty
is_empty(line) ==
  /\ line.gain = None /\ line.mute = None /\ line.clipguard = None /\ line.phantom = None /\ line.lowcut = None
  /\ line.volume = None /\ line.mix = None /\ line.color_mute = None /\ line.color_gen = None
  /\ line.gain_lock = None /\ line.color_gain_reduction = None /\ line.clipguard_indicator = None /\ line.lim = None
  /\ line.err = None

\* #[derive(Default)] for UiState
DefaultUiState == [cached |-> DefaultConfig, io |-> DefaultLine]

\* -------------------------------------------------- generated input values
\* The values a field takes in generated Configurations: its default and the
\* values that exercise the encoding (a gain above 255, a negative volume,
\* the mix that sets the flag byte, every lowcut, a colour with three
\* different bytes).
FieldValues(f) ==
  CASE f = "gain"   -> {0, 7680}
    [] f = "volume" -> {0, -128}
    [] f = "mix"    -> {0, 41}
    [] f = "lowcut" -> LowcutFilter
    [] f \in {"color_mute", "color_gen", "color_gain_reduction"}
                    -> {<<0, 0, 0>>, <<255, 0, 16>>}
    [] OTHER        -> BOOLEAN

\* The Configurations of S and those that differ from one of S in one field.
Vary(S) ==
  S \cup UNION {UNION {{[c EXCEPT ![f] = v] : v \in FieldValues(f)} :
                       f \in FieldSet} : c \in S}

RECURSIVE ConfigsVarying(_)
\* Configurations that differ from the default in at most n fields.
ConfigsVarying(n) ==
  IF n = 0 THEN {DefaultConfig} ELSE Vary(ConfigsVarying(n - 1))

Configs == ConfigsVarying(MaxVaried)

\* The directive and err fields a generated Line carries.
DirectiveSets ==
  {[persistent |-> None, use_cached |-> None, err |-> None],
   [persistent |-> Some(FALSE), use_cached |-> Some(FALSE), err |-> None],
   [persistent |-> Some(TRUE), use_cached |-> Some(TRUE),
    err |-> Some(<<"text">>)]}

\* The sets of domain fields present in a generated Line: none, one, gain
\* and mute together, all.
PresentSets ==
  {{}, {"gain", "mute"}, FieldSet} \cup {{f} : f \in FieldSet}

\* The UserConfig of the test merge_user_config: gain 30 << 8 and mute.
TestPatch == [DefaultLine EXCEPT !.gain = Some(7680), !.mute = Some(TRUE)]

\* The Line whose present fields (those of P) carry c's values.
LineOf(c, P, d) ==
  [gain |-> IF "gain" \in P THEN Some(c.gain) ELSE None,
   mute |-> IF "mute" \in P THEN Some(c.mute) ELSE None,
   clipguard |-> IF "clipguard" \in P THEN Some(c.clipguard) ELSE None,
   phantom |-> IF "phantom" \in P THEN Some(c.phantom) ELSE None,
   lowcut |-> IF "lowcut" \in P THEN Some(c.lowcut) ELSE None,
   volume |-> IF "volume" \in P THEN Some(c.volume) ELSE None,
   mix |-> IF "mix" \in P THEN Some(c.mix) ELSE None,
   color_mute |-> IF "color_mute" \in P THEN Some(c.color_mute) ELSE None,
   color_gen |-> IF "color_gen" \in P THEN Some(c.color_gen) ELSE None,
   gain_lock |-> IF "gain_lock" \in P THEN Some(c.gain_lock) ELSE None,
   color_gain_reduction |->
     IF "color_gain_reduction" \in P THEN Some(c.color_gain_reduction)
     ELSE None,
   clipguard_indicator |->
     IF "clipguard_indicator" \in P THEN Some(c.clipguard_indicator)
     ELSE None,
   lim |-> IF "lim" \in P THEN Some(c.lim) ELSE None,
   persistent |-> d.persistent,
   use_cached |-> d.use_cached,
   err |-> d.err]

Patches ==
  {LineOf(c, P, d) : c \in Configs, P \in PresentSets, d \in DirectiveSets}
    \cup {TestPatch}

\* Contents of a buffer before DeviceConfiguration::write fills it.
PriorBufs == {ZeroBuf, [i \in Offsets |-> 255]}

\* Byte values a device may return at an offset.
ByteSamples == {0, 1, 2, 255}

\* ------------------------------------------------------ device transfers
\* enum Mode, and `mode as _` for the control transfer's value.
ModeAsU16(mode) ==
  CASE mode = "Temporary"  -> 0
    [] mode = "Persistant" -> 2

\* Option<bool>::unwrap_or(false)
unwrap_or_false(opt) == IF opt = None THEN FALSE ELSE opt[1]

\* WriteMode choosing Persistant whenever the directive is present.
WriteMode_IfPresent(persistent) ==
  IF persistent # None THEN "Persistant" ELSE "Temporary"

\* The `match persistent.unwrap_or(false)` choosing the write mode.
WriteMode(persistent) ==
  IF unwrap_or_false(persistent) THEN "Persistant" ELSE "Temporary"

\* How a control_in transfer can end: 34 bytes, a transfer error, or a reply
\* of another length.
ReadOutcomes == {"ok", "transport", "short"}

\* Device::read_config: record is what the device holds when the transfer
\* completes.
read_config(outcome, record) ==
  IF outcome = "transport" THEN Err(<<"read control">>)
  ELSE IF outcome = "short" THEN Err(<<"buffer has wrong size">>)
  ELSE DeviceConfiguration_read(record)

\* Device::write_config: the payload of the control_out transfer.
write_config(config) == DeviceConfiguration_write(config, ZeroBuf)

\* ------------------------------------------------------------ input sets
\* Lines the peer sends (already parsed by serde_json into a Line): the
\* line {"mute": true}, which leaves the gain to the Configuration it is
\* merged into, and the line {"gain": 7680, "mute": true, "use_cached": true,
\* "persistent": true}.
Lines ==
  {[DefaultLine EXCEPT !.mute = Some(TRUE)],
   [DefaultLine EXCEPT !.gain = Some(7680), !.mute = Some(TRUE),
                       !.use_cached = Some(TRUE), !.persistent = Some(TRUE)]}

\* Records the device can hold by itself (its power-on record, or after a
\* control on the device is used): a valid record and one whose clipguard
\* byte is not a bool.
DevRecords ==
  {write_config(DefaultConfig),
   [write_config(DefaultConfig) EXCEPT ![5] = 2]}

\* ---------------------------------------------------------------- state
VARIABLES
  state,      \* the UiState inside Arc<Mutex<UiState>>
  lock,       \* holder of the Mutex: "none", "in" or "out"
  dev,        \* the 34-byte record the device holds
  dev_mode,   \* `value` of the last completed control_out
  pc_in,      \* position of the inbound (stdin) task
  in_line,    \* inbound: the parsed Line
  in_config,  \* inbound: Option<DeviceConfiguration> read from the device
  in_merged,  \* inbound: the `config` returned by update_state
  in_err,     \* inbound: the Err of `res`, as Option<message>
  pc_out,     \* position of the outbound (stdout) task
  out_config, \* outbound: Option of the `config` read on this tick
  out_line,   \* outbound: the Line returned by update_device_info
  out_err,    \* outbound: the Err of `res`, as Option<message>
  in_steps,   \* history: steps completed in the current inbound unit of work
  in_fail,    \* history: step at which the current inbound unit failed
  in_entry,   \* history: canonical Configuration when the unit's line arrived
  hist,       \* which history is recorded: "none", "output" or "reads"
  out_sent,   \* history: per field, the value last written to the output
  read_order, \* history: live device reads in the order they completed
  c_pc,       \* codec check: position
  c_cfg,      \* codec check: the Configuration to encode
  c_buf,      \* codec check: the 34-byte buffer
  c_res,      \* codec check: Option of the Result of decoding c_buf
  p_pc,       \* patch check: position
  p_state,    \* patch check: the UiState operated on
  p_hist      \* patch check: the operations applied so far

vars ==
  <<state, lock, dev, dev_mode, pc_in, in_line, in_config, in_merged, in_err,
    pc_out, out_config, out_line, out_err,
    in_steps, in_fail, in_entry, hist, out_sent, read_order,
    c_pc, c_cfg, c_buf, c_res, p_pc, p_state, p_hist>>

in_vars == <<pc_in, in_line, in_config, in_merged, in_err>>

in_hist == <<in_steps, in_fail, in_entry>>

out_vars == <<pc_out, out_config, out_line, out_err>>

\* History of the output and of the device reads.
io_hist == <<hist, out_sent, read_order>>

\* Variables of the two loops and of the device.
loop_vars ==
  <<state, lock, dev, dev_mode, in_vars, in_hist, out_vars, io_hist>>

\* Variables of the codec check and of the patch check.
codec_vars == <<c_pc, c_cfg, c_buf, c_res>>

patch_vars == <<p_pc, p_state, p_hist>>

\* Suspension points (.await) of the two tasks.
InSuspended == {"read_line", "dev_read", "dev_write"}

OutSuspended == {"dev_read", "write_out", "sleep"}

\* Tasks with a control transfer in flight on the device.
InFlight ==
  (IF pc_in \in {"dev_read", "dev_write"} THEN {"in"} ELSE {})
    \cup (IF pc_out = "dev_read" THEN {"out"} ELSE {})

\* Nothing has been written to the output yet.
NothingSent == [f \in FieldSet |-> None]

\* The fields of a written Line replace what was last written for them.
Sent(sent, line) ==
  IF hist = "output"
  THEN [f \in FieldSet |-> IF line[f] # None THEN line[f] ELSE sent[f]]
  ELSE sent

\* order without the entry who.
Without(order, who) == SelectSeq(order, LAMBDA x : x # who)

\* A read of task `who` completes: it is the latest of the live reads.
ReadCompleted(order, who) ==
  IF hist = "reads" THEN Append(Without(order, who), who) ELSE order

\* Task `who` stores its read in state.cached: the read that state.cached
\* held is no longer live and who's read is the one it holds.
ReadStored(order, who) ==
  LET rest == Without(order, "cached") IN
  IF hist = "reads"
  THEN [i \in 1..Len(rest) |-> IF rest[i] = who THEN "cached" ELSE rest[i]]
  ELSE order

\* The two loops at the start of stdio(), before any step.
LoopInit ==
  /\ state = DefaultUiState
  /\ lock = "none"
  /\ dev \in DevRecords
  /\ dev_mode = None
  /\ pc_in = "read_line"
  /\ in_line = DefaultLine
  /\ in_config = None
  /\ in_merged = None
  /\ in_err = None
  /\ pc_out = "dev_read"
  /\ out_config = None
  /\ out_line = DefaultLine
  /\ out_err = None
  /\ in_steps = <<>>
  /\ in_fail = "none"
  /\ in_entry = None
  /\ hist = "none"
  /\ out_sent = NothingSent
  /\ read_order = <<>>

\* The two loops not started, for the checks of the pure functions.
LoopIdle == LoopInit /\ dev = write_config(DefaultConfig)

\* The codec check and the patch check are not running.
CodecIdle ==
  /\ c_pc = "idle"
  /\ c_cfg = DefaultConfig
  /\ c_buf = ZeroBuf
  /\ c_res = None

PatchIdle ==
  /\ p_pc = "idle"
  /\ p_state = DefaultUiState
  /\ p_hist = <<>>

Init == LoopInit /\ CodecIdle /\ PatchIdle

\* `state.lock().unwrap().io.err = Some(err.to_string())`
store_err(self, err) == [self EXCEPT !.io.err = err]

\* ---------------------------------------------------- inbound (stdin) task
\* `if !use_cached.unwrap_or(false) { Some(device.read_config(..).await?) }
\*  else { None }`: where the task goes once the line is parsed.
InAfterLine(line) ==
  IF ~unwrap_or_false(line.use_cached) THEN "dev_read" ELSE "lock"

\* InAfterRead with the `?` outside the `async` block: a failed read leaves
\* the loop.
InAfterRead_Exit(res) == IF res.ok THEN "lock" ELSE "exit"

\* InAfterRead with the `?` missing: the task goes on after a failed read.
InAfterRead_Ignore(res) == "lock"

\* The `?` on device.read_config(..).await in the inbound task.
InAfterRead(res) == IF res.ok THEN "lock" ELSE "err"

\* InRefresh with the store of the read Configuration left out.
InRefresh_Skip(self, config) == self

\* `if let Some(config) = config { state.cached = config; }`
InRefresh(self, config) ==
  IF config # None THEN [self EXCEPT !.cached = config[1]] ELSE self

\* InLockAfterBlock with the guard living until the end of the unit of work.
InLockAfterBlock_Held == "in"

\* The MutexGuard `state` is dropped at the end of the `let config = {..}`
\* block, before write_config is awaited.
InLockAfterBlock == "none"

\* Locals of the unit of work go out of scope when the `async` block ends.
InUnitEnd ==
  /\ in_line' = DefaultLine
  /\ in_config' = None
  /\ in_merged' = None
  /\ in_err' = None
  /\ in_steps' = <<>>
  /\ in_fail' = "none"
  /\ in_entry' = None

\* stdin.read_until fails: `?` leaves the block with the io error.
InLineIoError ==
  /\ pc_in = "read_line"
  /\ pc_in' = "err"
  /\ in_err' = Some(<<"stdin read failed">>)
  /\ in_fail' = "line"
  /\ in_steps' = <<>>
  /\ in_entry' = Some(state.cached)
  /\ UNCHANGED <<in_line, in_config, in_merged>>
  /\ UNCHANGED <<state, lock, dev, dev_mode, out_vars>>
  /\ UNCHANGED io_hist
  /\ UNCHANGED <<codec_vars, patch_vars>>

\* serde_json::from_slice fails (malformed JSON, wrong-typed value, or the
\* empty buffer at end of input).
InLineMalformed ==
  /\ pc_in = "read_line"
  /\ pc_in' = "err"
  /\ in_err' = Some(<<"line is not a valid Line">>)
  /\ in_fail' = "line"
  /\ in_steps' = <<>>
  /\ in_entry' = Some(state.cached)
  /\ UNCHANGED <<in_line, in_config, in_merged>>
  /\ UNCHANGED <<state, lock, dev, dev_mode, out_vars>>
  /\ UNCHANGED io_hist
  /\ UNCHANGED <<codec_vars, patch_vars>>

\* A line is read and parsed; the device read is issued unless use_cached.
InLine ==
  /\ pc_in = "read_line"
  /\ \E line \in Lines :
       /\ in_line' = line
       /\ pc_in' = InAfterLine(line)
  /\ in_steps' = <<>>
  /\ in_fail' = "none"
  /\ in_entry' = Some(state.cached)
  /\ UNCHANGED <<in_config, in_merged, in_err>>
  /\ UNCHANGED <<state, lock, dev, dev_mode, out_vars>>
  /\ UNCHANGED io_hist
  /\ UNCHANGED <<codec_vars, patch_vars>>

\* device.read_config(..).await completes.
InDevReadDone ==
  /\ pc_in = "dev_read"
  /\ \E outcome \in ReadOutcomes :
       LET res == read_config(outcome, dev) IN
       /\ pc_in' = InAfterRead(res)
       /\ in_config' = IF res.ok THEN Some(res.val) ELSE None
       /\ in_err' = IF res.ok THEN None ELSE Some(res.err)
       /\ read_order' = IF res.ok THEN ReadCompleted(read_order, "in")
                         ELSE read_order
       /\ in_fail' = IF res.ok THEN "none" ELSE "read"
       /\ in_steps' = IF res.ok THEN Append(in_steps, "read") ELSE in_steps
  /\ UNCHANGED <<in_line, in_merged, in_entry>>
  /\ UNCHANGED <<state, lock, dev, dev_mode, out_vars>>
  /\ UNCHANGED <<hist, out_sent>>
  /\ UNCHANGED <<codec_vars, patch_vars>>

\* state.lock().unwrap() before the merge.
InLock ==
  /\ pc_in = "lock"
  /\ lock = "none"
  /\ lock' = "in"
  /\ pc_in' = "locked"
  /\ UNCHANGED <<in_line, in_config, in_merged, in_err, in_hist>>
  /\ UNCHANGED <<state, dev, dev_mode, out_vars>>
  /\ UNCHANGED io_hist
  /\ UNCHANGED <<codec_vars, patch_vars>>

\* The critical section: refresh state.cached, update_state(line), drop the
\* guard; write_config is issued next.
InMerge ==
  /\ pc_in = "locked"
  /\ LET refreshed == InRefresh(state, in_config)
         res == update_state(refreshed, in_line)
     IN  /\ state' = res.state
         /\ in_merged' = Some(res.config)
  /\ lock' = InLockAfterBlock
  /\ pc_in' = "dev_write"
  /\ in_steps' = Append(in_steps, "merge")
  /\ UNCHANGED <<in_line, in_config, in_err, in_fail, in_entry>>
  /\ UNCHANGED <<dev, dev_mode, out_vars>>
  /\ read_order' = IF in_config # None
                   THEN ReadStored(read_order, "in") ELSE read_order
  /\ UNCHANGED <<hist, out_sent>>
  /\ UNCHANGED <<codec_vars, patch_vars>>

\* device.write_config(..).await completes successfully: the device holds
\* the payload, the unit of work ends and the loop reads the next line.
InDevWriteOk ==
  /\ pc_in = "dev_write"
  /\ dev' = write_config(in_merged[1])
  /\ dev_mode' = Some(ModeAsU16(WriteMode(in_line.persistent)))
  /\ pc_in' = "read_line"
  /\ InUnitEnd
  /\ UNCHANGED <<state, lock, out_vars>>
  /\ UNCHANGED io_hist
  /\ UNCHANGED <<codec_vars, patch_vars>>

\* device.write_config(..).await fails (transfer error or timeout); the
\* device may or may not have taken the payload.
InDevWriteFail ==
  /\ pc_in = "dev_write"
  /\ \E taken \in BOOLEAN :
       /\ dev' = IF taken THEN write_config(in_merged[1]) ELSE dev
       /\ dev_mode' = IF taken
                      THEN Some(ModeAsU16(WriteMode(in_line.persistent)))
                      ELSE dev_mode
  /\ pc_in' = "err"
  /\ in_err' = Some(<<"control_out failed">>)
  /\ in_fail' = "write"
  /\ UNCHANGED <<in_line, in_config, in_merged, in_steps, in_entry>>
  /\ UNCHANGED <<state, lock, out_vars>>
  /\ UNCHANGED io_hist
  /\ UNCHANGED <<codec_vars, patch_vars>>

\* `Err(err) => state.lock().unwrap()...`: the handler takes the lock.
InErrLock ==
  /\ pc_in = "err"
  /\ lock = "none"
  /\ lock' = "in"
  /\ pc_in' = "err_locked"
  /\ UNCHANGED <<in_line, in_config, in_merged, in_err, in_hist>>
  /\ UNCHANGED <<state, dev, dev_mode, out_vars>>
  /\ UNCHANGED io_hist
  /\ UNCHANGED <<codec_vars, patch_vars>>

\* `.io.err = Some(err.to_string())`; the temporary guard is dropped and the
\* loop reads the next line.
InErrStore ==
  /\ pc_in = "err_locked"
  /\ state' = store_err(state, in_err)
  /\ lock' = "none"
  /\ pc_in' = "read_line"
  /\ InUnitEnd
  /\ UNCHANGED <<dev, dev_mode, out_vars>>
  /\ UNCHANGED io_hist
  /\ UNCHANGED <<codec_vars, patch_vars>>

InNext ==
  \/ InLineIoError
  \/ InLineMalformed
  \/ InLine
  \/ InDevReadDone
  \/ InLock
  \/ InMerge
  \/ InDevWriteOk
  \/ InDevWriteFail
  \/ InErrLock
  \/ InErrStore

\* -------------------------------------------------- outbound (stdout) task
\* The `?` on device.read_config(..).await in the outbound task.
OutAfterRead(res) == IF res.ok THEN "lock" ELSE "err"

\* OutAfterDiff with the loop going on to the next read when nothing is
\* written, without the sleep.
OutAfterDiff_NoSleep(line) ==
  IF ~is_empty(line) THEN "write_out" ELSE "dev_read"

\* OutAfterDiff writing every line.
OutAfterDiff_Always(line) == "write_out"

\* `if !line.is_empty() { .. write_all .. flush .. }`
OutAfterDiff(line) == IF ~is_empty(line) THEN "write_out" ELSE "sleep"

\* Locals of the tick go out of scope when the `async` block ends.
OutUnitEnd ==
  /\ out_config' = None
  /\ out_line' = DefaultLine
  /\ out_err' = None

\* device.read_config(..).await completes.
OutDevReadDone ==
  /\ pc_out = "dev_read"
  /\ \E outcome \in ReadOutcomes :
       LET res == read_config(outcome, dev) IN
       /\ pc_out' = OutAfterRead(res)
       /\ out_config' = IF res.ok THEN Some(res.val) ELSE None
       /\ out_err' = IF res.ok THEN None ELSE Some(res.err)
       /\ read_order' = IF res.ok THEN ReadCompleted(read_order, "out")
                         ELSE read_order
  /\ UNCHANGED out_line
  /\ UNCHANGED <<state, lock, dev, dev_mode, in_vars, in_hist>>
  /\ UNCHANGED <<hist, out_sent>>
  /\ UNCHANGED <<codec_vars, patch_vars>>

\* state.lock().unwrap() before update_device_info.
OutLock ==
  /\ pc_out = "lock"
  /\ lock = "none"
  /\ lock' = "out"
  /\ pc_out' = "locked"
  /\ UNCHANGED <<out_config, out_line, out_err>>
  /\ UNCHANGED <<state, dev, dev_mode, in_vars, in_hist>>
  /\ UNCHANGED io_hist
  /\ UNCHANGED <<codec_vars, patch_vars>>

\* update_device_info(config) under the lock; the temporary guard is dropped
\* at the end of the statement.  A non-empty line is serialised and its
\* write is awaited; an empty one goes straight to the sleep.
OutDiff ==
  /\ pc_out = "locked"
  /\ LET res == update_device_info(state, out_config[1]) IN
       /\ state' = res.state
       /\ out_line' = res.line
       /\ pc_out' = OutAfterDiff(res.line)
  /\ lock' = "none"
  /\ UNCHANGED <<out_config, out_err>>
  /\ UNCHANGED <<dev, dev_mode, in_vars, in_hist>>
  /\ read_order' = ReadStored(read_order, "out")
  /\ UNCHANGED <<hist, out_sent>>
  /\ UNCHANGED <<codec_vars, patch_vars>>

\* stdout.write_all / flush complete: the line is on the output.
OutWriteOk ==
  /\ pc_out = "write_out"
  /\ pc_out' = "sleep"
  /\ OutUnitEnd
  /\ UNCHANGED <<state, lock, dev, dev_mode, in_vars, in_hist>>
  /\ out_sent' = Sent(out_sent, out_line)
  /\ UNCHANGED <<hist, read_order>>
  /\ UNCHANGED <<codec_vars, patch_vars>>

\* stdout.write_all / flush fail.
OutWriteFail ==
  /\ pc_out = "write_out"
  /\ pc_out' = "err"
  /\ out_err' = Some(<<"stdout write failed">>)
  /\ UNCHANGED <<out_config, out_line>>
  /\ UNCHANGED <<state, lock, dev, dev_mode, in_vars, in_hist>>
  /\ UNCHANGED io_hist
  /\ UNCHANGED <<codec_vars, patch_vars>>

\* `Err(err) => state.lock().unwrap()...`: the handler takes the lock.
OutErrLock ==
  /\ pc_out = "err"
  /\ lock = "none"
  /\ lock' = "out"
  /\ pc_out' = "err_locked"
  /\ UNCHANGED <<out_config, out_line, out_err>>
  /\ UNCHANGED <<state, dev, dev_mode, in_vars, in_hist>>
  /\ UNCHANGED io_hist
  /\ UNCHANGED <<codec_vars, patch_vars>>

\* `.io.err = Some(err.to_string())`, then sleep(1s).
OutErrStore ==
  /\ pc_out = "err_locked"
  /\ state' = store_err(state, out_err)
  /\ lock' = "none"
  /\ pc_out' = "sleep"
  /\ OutUnitEnd
  /\ UNCHANGED <<dev, dev_mode, in_vars, in_hist>>
  /\ UNCHANGED io_hist
  /\ UNCHANGED <<codec_vars, patch_vars>>

\* sleep(Duration::from_secs(1)).await completes; the next tick issues its
\* device read.
OutWake ==
  /\ pc_out = "sleep"
  /\ pc_out' = "dev_read"
  /\ UNCHANGED <<out_config, out_line, out_err>>
  /\ UNCHANGED <<state, lock, dev, dev_mode, in_vars, in_hist>>
  /\ UNCHANGED io_hist
  /\ UNCHANGED <<codec_vars, patch_vars>>

OutNext ==
  \/ OutDevReadDone
  \/ OutLock
  \/ OutDiff
  \/ OutWriteOk
  \/ OutWriteFail
  \/ OutErrLock
  \/ OutErrStore
  \/ OutWake

\* ------------------------------------------------------------- the device
\* The device changes its own record (a control on the hardware is used).
DeviceChange ==
  /\ \E record \in DevRecords :
       /\ record # dev
       /\ dev' = record
  /\ UNCHANGED <<state, lock, dev_mode, in_vars, in_hist, out_vars>>
  /\ UNCHANGED io_hist
  /\ UNCHANGED <<codec_vars, patch_vars>>

Next == InNext \/ OutNext \/ DeviceChange

Spec == Init /\ [][Next]_vars

\* Scheduling of the inbound task: a control transfer ends within its
\* 1-second timeout, a task in a critical section runs on to the end of it
\* (there is no .await inside), and a task blocked in lock() gets the Mutex,
\* which the other task frees again and again.  Whether a line arrives, and
\* whether the outbound task wakes, is left open.
Fairness ==
  /\ WF_vars(InDevReadDone)
  /\ SF_vars(InLock)
  /\ WF_vars(InMerge)
  /\ WF_vars(InDevWriteOk \/ InDevWriteFail)
  /\ SF_vars(InErrLock)
  /\ WF_vars(InErrStore)
  /\ WF_vars(OutDiff)
  /\ WF_vars(OutErrStore)

\* The two loops alone: the device record changes only by the inbound
\* task's writes.
LoopNext == InNext \/ OutNext

FairSpec == Init /\ [][LoopNext]_vars /\ Fairness

\* Scheduling of the outbound task: its control transfer ends within its
\* 1-second timeout, lock() gets the Mutex, a critical section of either
\* task runs on to its end, the peer takes what is written to the output or
\* the write fails, and the 1-second timer fires.
OutFairness ==
  /\ WF_vars(InMerge)
  /\ WF_vars(InErrStore)
  /\ WF_vars(OutDevReadDone)
  /\ SF_vars(OutLock)
  /\ WF_vars(OutDiff)
  /\ WF_vars(OutWriteOk \/ OutWriteFail)
  /\ SF_vars(OutErrLock)
  /\ WF_vars(OutErrStore)
  /\ WF_vars(OutWake)

FairOutSpec == Init /\ [][LoopNext]_vars /\ OutFairness

\* ----------------------------------------------------------- inbound check
\* Records of a device whose lowcut control is in each of its positions:
\* the default record with each of the three lowcut codes at bytes 7-8.
LowcutRecords ==
  {write_config([DefaultConfig EXCEPT !.lowcut = l]) : l \in LowcutFilter}

\* The inbound task alone on such a device: between the read and the write
\* of a unit of work nothing else touches the record.
InboundInit ==
  /\ state = DefaultUiState
  /\ lock = "none"
  /\ dev \in LowcutRecords
  /\ dev_mode = None
  /\ pc_in = "read_line"
  /\ in_line = DefaultLine
  /\ in_config = None
  /\ in_merged = None
  /\ in_err = None
  /\ pc_out = "dev_read"
  /\ out_config = None
  /\ out_line = DefaultLine
  /\ out_err = None
  /\ in_steps = <<>>
  /\ in_fail = "none"
  /\ in_entry = None
  /\ hist = "none"
  /\ out_sent = NothingSent
  /\ read_order = <<>>

InboundNext == InNext

InitInbound == InboundInit /\ CodecIdle /\ PatchIdle

SpecInbound == InitInbound /\ [][InboundNext]_vars

\* --------------------------------------------------------- history checks
\* The two loops with the history of the output recorded.
OutputInit ==
  /\ state = DefaultUiState
  /\ lock = "none"
  /\ dev \in DevRecords
  /\ dev_mode = None
  /\ pc_in = "read_line"
  /\ in_line = DefaultLine
  /\ in_config = None
  /\ in_merged = None
  /\ in_err = None
  /\ pc_out = "dev_read"
  /\ out_config = None
  /\ out_line = DefaultLine
  /\ out_err = None
  /\ in_steps = <<>>
  /\ in_fail = "none"
  /\ in_entry = None
  /\ hist = "output"
  /\ out_sent = NothingSent
  /\ read_order = <<>>

InitOutput == OutputInit /\ CodecIdle /\ PatchIdle

SpecOutput == InitOutput /\ [][LoopNext]_vars

\* The two loops with the order of the device reads recorded.
ReadsInit ==
  /\ state = DefaultUiState
  /\ lock = "none"
  /\ dev \in DevRecords
  /\ dev_mode = None
  /\ pc_in = "read_line"
  /\ in_line = DefaultLine
  /\ in_config = None
  /\ in_merged = None
  /\ in_err = None
  /\ pc_out = "dev_read"
  /\ out_config = None
  /\ out_line = DefaultLine
  /\ out_err = None
  /\ in_steps = <<>>
  /\ in_fail = "none"
  /\ in_entry = None
  /\ hist = "reads"
  /\ out_sent = NothingSent
  /\ read_order = <<>>

InitReads == ReadsInit /\ CodecIdle /\ PatchIdle

SpecReads == InitReads /\ [][LoopNext]_vars

\* ------------------------------------------------------------- codec check
\* DeviceConfiguration::write and ::read applied to generated values: a
\* Configuration is encoded into a buffer, the record either comes back as it
\* is or with one byte as a device may send it, and is decoded.
CodecInit ==
  /\ c_pc = "start"
  /\ c_cfg \in Configs
  /\ c_buf \in PriorBufs
  /\ c_res = None

CodecEncode ==
  /\ c_pc = "start"
  /\ c_buf' = DeviceConfiguration_write(c_cfg, c_buf)
  /\ c_pc' = "encoded"
  /\ UNCHANGED <<c_cfg, c_res>>
  /\ UNCHANGED <<loop_vars, patch_vars>>

CodecAlter ==
  /\ c_pc = "encoded"
  /\ \E i \in Offsets, b \in ByteSamples :
       /\ c_buf[i] # b
       /\ c_buf' = [c_buf EXCEPT ![i] = b]
  /\ c_pc' = "altered"
  /\ UNCHANGED <<c_cfg, c_res>>
  /\ UNCHANGED <<loop_vars, patch_vars>>

CodecDecode ==
  /\ c_pc \in {"encoded", "altered"}
  /\ c_res' = Some(DeviceConfiguration_read(c_buf))
  /\ c_pc' = IF c_pc = "encoded" THEN "decoded" ELSE "decoded_altered"
  /\ UNCHANGED <<c_cfg, c_buf>>
  /\ UNCHANGED <<loop_vars, patch_vars>>

CodecNext == CodecEncode \/ CodecAlter \/ CodecDecode

InitCodec == LoopIdle /\ CodecInit /\ PatchIdle

SpecCodec == InitCodec /\ [][CodecNext]_vars

\* ------------------------------------------------------------- patch check
\* update_device_info, update_state and the error handlers' store applied to
\* a UiState, starting from UiState::default(), up to two in a row.
PatchInit ==
  /\ p_pc = "fresh"
  /\ p_state = DefaultUiState
  /\ p_hist = <<>>

PatchStep(pc) == IF pc = "fresh" THEN "once" ELSE "twice"

PatchDiff ==
  /\ p_pc \in {"fresh", "once"}
  /\ \E config \in Configs :
       LET res == update_device_info(p_state, config) IN
       /\ p_state' = res.state
       /\ p_hist' = Append(p_hist, [op |-> "diff", arg |-> config,
                                    before |-> p_state, after |-> res.state,
                                    ret |-> res.line])
  /\ p_pc' = PatchStep(p_pc)
  /\ UNCHANGED <<loop_vars, codec_vars>>

PatchMerge ==
  /\ p_pc \in {"fresh", "once"}
  /\ \E line \in Patches :
       LET res == update_state(p_state, line) IN
       /\ p_state' = res.state
       /\ p_hist' = Append(p_hist, [op |-> "merge", arg |-> line,
                                    before |-> p_state, after |-> res.state,
                                    ret |-> res.config])
  /\ p_pc' = PatchStep(p_pc)
  /\ UNCHANGED <<loop_vars, codec_vars>>

PatchError ==
  /\ p_pc \in {"fresh", "once"}
  /\ LET after == store_err(p_state, Some(<<"read control">>)) IN
       /\ p_state' = after
       /\ p_hist' = Append(p_hist, [op |-> "error",
                                    arg |-> Some(<<"read control">>),
                                    before |-> p_state, after |-> after,
                                    ret |-> None])
  /\ p_pc' = PatchStep(p_pc)
  /\ UNCHANGED <<loop_vars, codec_vars>>

PatchNext == PatchDiff \/ PatchMerge \/ PatchError

InitPatch == LoopIdle /\ CodecIdle /\ PatchInit

SpecPatch == InitPatch /\ [][PatchNext]_vars

\* -------------------------------------------------------------- diff check
\* update_device_info and the error handlers' store applied up to two in a
\* row to a UiState the program can hold: the one of UiState::default() or
\* the one after an outbound tick, each with or without a stored error.
TickedState ==
  update_device_info(DefaultUiState,
                     [DefaultConfig EXCEPT !.gain = 7680, !.lim = TRUE]).state

DiffStates ==
  {DefaultUiState, store_err(DefaultUiState, Some(<<"read control">>)),
   TickedState, store_err(TickedState, Some(<<"read control">>))}

DiffInit ==
  /\ p_pc = "fresh"
  /\ p_state \in DiffStates
  /\ p_hist = <<>>

DiffNext == PatchDiff \/ PatchError

InitDiff == LoopIdle /\ CodecIdle /\ DiffInit

SpecDiff == InitDiff /\ [][DiffNext]_vars

\* ================================================================ claims
\* Last operation of the patch check.
PatchLast == p_hist[Len(p_hist)]

\* C1: round trip.  For every Configuration c, decoding the record that
\* encoding c produced succeeds and returns c in every field.
C1_RoundTrip ==
  c_pc = "decoded" => (c_res[1].ok /\ c_res[1].val = c_cfg)

\* C2: update_device_info applies, independently for each of the 13 domain
\* fields: if the snapshot has no value or a value other than current's, the
\* snapshot takes current's value and the result carries it; otherwise the
\* field is absent from the result and the snapshot keeps its value.
C2_DiffRule ==
  \A k \in 1..Len(p_hist) :
    p_hist[k].op = "diff" =>
      \A f \in FieldSet :
        LET stored == p_hist[k].before.io[f]
            current == p_hist[k].arg[f]
        IN  IF stored = None \/ stored # Some(current)
            THEN /\ p_hist[k].after.io[f] = Some(current)
                 /\ p_hist[k].ret[f] = Some(current)
            ELSE /\ p_hist[k].ret[f] = None
                 /\ p_hist[k].after.io[f] = stored

\* A second diff whose snapshot holds every field: gain differs and is
\* reported, mute is equal and is left out.
C2_Witness ==
  /\ Len(p_hist) = 2
  /\ p_hist[1].op = "diff"
  /\ p_hist[2].op = "diff"
  /\ p_hist[1].ret.gain = Some(0)
  /\ p_hist[2].before.io.gain = Some(0)
  /\ p_hist[2].ret.gain = Some(7680)
  /\ p_hist[2].after.io.gain = Some(7680)
  /\ p_hist[2].ret.mute = None

\* C3: merge returns a Configuration in which every domain field present in
\* the patch has the patch's value and every absent one has base's value;
\* persistent, use_cached and err do not affect the result, and a patch with
\* no domain field yields base unchanged.
C3_MergeRule ==
  \A k \in 1..Len(p_hist) :
    p_hist[k].op = "merge" =>
      LET base == p_hist[k].before.cached
          patch == p_hist[k].arg
          bare == [patch EXCEPT !.persistent = None, !.use_cached = None,
                                !.err = None]
      IN  /\ \A f \in FieldSet :
               p_hist[k].ret[f] =
                 IF patch[f] # None THEN patch[f][1] ELSE base[f]
          /\ DOMAIN p_hist[k].ret = FieldSet
          /\ p_hist[k].after.cached = p_hist[k].ret
          /\ p_hist[k].ret = update_state(p_hist[k].before, bare).config
          /\ (\A f \in FieldSet : patch[f] = None) => p_hist[k].ret = base

\* A patch with lim and the three other fields set is merged into a base in
\* which lowcut is not the default: lim is taken from the patch.
C3_Witness ==
  /\ Len(p_hist) = 2
  /\ p_hist[1].op = "diff"
  /\ p_hist[2].op = "merge"
  /\ p_hist[2].before.cached.lowcut = "Cutoff120Hz"
  /\ p_hist[2].arg.lim = Some(TRUE)
  /\ p_hist[2].arg.lowcut = None
  /\ p_hist[2].arg.persistent = Some(TRUE)
  /\ p_hist[2].arg.err # None
  /\ p_hist[2].ret.lim = TRUE
  /\ p_hist[2].ret.lowcut = "Cutoff120Hz"

\* use_cached.unwrap_or(false) of the line of the current inbound unit.
UseCached == unwrap_or_false(in_line.use_cached)

\* A step of the inbound task.
InStep == pc_in' # pc_in

\* C4: in every inbound unit of work the steps happen in the order (device
\* read if required), merge, device write.  Without use_cached the merge
\* starts from the Configuration decoded from a device read of this unit;
\* with use_cached there is no device read in the unit and the merge starts
\* from the canonical state as held when the merge runs.
C4_Order ==
  /\ [](/\ pc_in = "dev_read" => (~UseCached /\ in_steps = <<>>)
        /\ pc_in \in {"lock", "locked"} =>
             in_steps = (IF UseCached THEN <<>> ELSE <<"read">>)
        /\ pc_in = "dev_write" =>
             in_steps = (IF UseCached THEN <<"merge">> ELSE <<"read", "merge">>)
        /\ UseCached => in_config = None)
  /\ [][/\ (in_config' # in_config /\ in_config' # None) =>
             (/\ pc_in = "dev_read"
              /\ in_config' = Some(DeviceConfiguration_read(dev).val))
        /\ (in_merged' # in_merged /\ in_merged' # None) =>
             (/\ pc_in = "locked"
              /\ UseCached => in_merged' = Some(merge(state.cached, in_line))
              /\ ~UseCached => in_merged' = Some(merge(in_config[1], in_line))
              /\ Some(state'.cached) = in_merged')
        /\ (InStep /\ dev' # dev) =>
             (/\ pc_in = "dev_write"
              /\ in_merged # None
              /\ dev' = write_config(in_merged[1]))]_vars

\* The write of a unit without use_cached is pending; the Configuration read
\* in the unit is not the canonical state held when the line arrived, and
\* the merged Configuration is built on the one read.
C4_Witness ==
  /\ pc_in = "dev_write"
  /\ ~UseCached
  /\ in_steps = <<"read", "merge">>
  /\ in_config # in_entry
  /\ in_merged = Some(merge(in_config[1], in_line))
  /\ in_merged # Some(merge(in_entry[1], in_line))

\* C5 as stated: when the device read of an inbound unit of work fails, the
\* unit performs no merge and no device write and the canonical Configuration
\* after the unit is the one from before it.
C5_SameAfterFailedRead ==
  (pc_in = "err_locked" /\ in_fail = "read") =>
    (/\ in_merged = None
     /\ in_steps = <<>>
     /\ Some(state.cached) = in_entry)

\* C5 amended: when the device read of an inbound unit of work fails, the
\* unit performs no merge and no device write and no step of the unit
\* changes the canonical Configuration; when the unit ends the canonical
\* Configuration is the one from before the unit unless the outbound task
\* stored a device read in it.
C5_FailedReadNoMutation ==
  /\ [](in_fail = "read" =>
          /\ pc_in \in {"err", "err_locked"}
          /\ in_merged = None
          /\ in_steps = <<>>)
  /\ [][(InStep /\ (in_fail = "read" \/ in_fail' = "read")) =>
          (/\ state'.cached = state.cached
           /\ dev' = dev
           /\ dev_mode' = dev_mode)]_vars
  /\ [][(in_fail = "read" /\ state'.cached # state.cached) =>
          (/\ pc_out = "locked"
           /\ Some(state'.cached) = out_config)]_vars

\* The error of a failed read (here a decode error) is about to be stored
\* and the canonical Configuration is the one from before the unit.
C5_Witness ==
  /\ pc_in = "err_locked"
  /\ in_fail = "read"
  /\ in_err # None
  /\ in_err[1][1] = "expected"
  /\ Some(state.cached) = in_entry

\* C6 as stated: when the device write of an inbound unit of work fails, the
\* canonical state at the moment the unit ends (its error is stored) is the
\* merged Configuration of the unit.
C6_MergedAtEnd ==
  (pc_in = "err_locked" /\ in_fail = "write") =>
    Some(state.cached) = in_merged

\* C6 amended: when the device write of an inbound unit of work fails, the
\* canonical state at the moment the unit ends is the merged Configuration of
\* the unit, unless the outbound task has stored a device read in the
\* canonical state after the merge; the unit itself does not change the
\* canonical state after the merge.
C6_MergedUnlessRefreshed ==
  /\ []((pc_in \in {"err", "err_locked"} /\ in_fail = "write") =>
          in_merged # None)
  /\ [][(pc_in = "locked" /\ InStep) => Some(state'.cached) = in_merged']_vars
  /\ [][(in_merged # None /\ state'.cached # state.cached) =>
          (/\ pc_out = "locked"
           /\ Some(state'.cached) = out_config)]_vars
  /\ [][(in_merged # None /\ pc_in # "locked" /\ InStep) =>
          state'.cached = state.cached]_vars

\* The error of a failed write is about to be stored; the merge changed the
\* canonical state and the canonical state still holds the merged
\* Configuration.
C6_Witness ==
  /\ pc_in = "err_locked"
  /\ in_fail = "write"
  /\ in_merged # in_entry
  /\ Some(state.cached) = in_merged

\* C7: no caught error's message is discarded or replaced by a later error
\* before it has been emitted: a pending message leaves state.io.err only by
\* being moved into the Line that update_device_info returns.
C7_NoErrorLost ==
  [][(state.io.err # None /\ state'.io.err # state.io.err) =>
       (/\ pc_out = "locked"
        /\ state'.io.err = None
        /\ out_line'.err = state.io.err)]_vars

\* C8: device control transfers are mutually excluded: never are two
\* transfers in flight at once.
C8_MutualExclusion == Cardinality(InFlight) <= 1

\* C9: the state lock is never held across a suspension point: no task holds
\* the lock while it waits on a line read, a device transfer, an output
\* write or the tick sleep.
C9_NoLockAcrossAwait ==
  /\ lock = "in" => pc_in \notin InSuspended
  /\ lock = "out" => pc_out \notin OutSuspended
  /\ lock = "none" => (pc_in \notin {"locked", "err_locked"}
                       /\ pc_out \notin {"locked", "err_locked"})

\* The outbound task holds the lock while the inbound task, which released
\* it after its merge, waits on its device write.
C9_Witness ==
  /\ lock = "out"
  /\ pc_out = "locked"
  /\ pc_in = "dev_write"

\* C10: the inbound loop never terminates: after any line, processed,
\* malformed or hit by a device failure, the task comes back to reading the
\* next line; a malformed or wrong-typed line causes no device read, no
\* device write and no change to the canonical Configuration.
C10_InboundContinues ==
  /\ [](pc_in \in {"read_line", "dev_read", "lock", "locked", "dev_write",
                   "err", "err_locked"})
  /\ (pc_in # "read_line") ~> (pc_in = "read_line")
  /\ [](in_fail = "line" =>
          /\ pc_in \in {"err", "err_locked"}
          /\ in_steps = <<>>
          /\ in_config = None
          /\ in_merged = None)
  /\ [][(InStep /\ (in_fail = "line" \/ in_fail' = "line")) =>
          (/\ state'.cached = state.cached
           /\ dev' = dev
           /\ dev_mode' = dev_mode
           /\ pc_in' \in {"err", "err_locked", "read_line"})]_vars

\* The error of a malformed line is about to be stored while the canonical
\* Configuration is not the default one, so that a change would show.
C10_Witness ==
  /\ pc_in = "err_locked"
  /\ in_fail = "line"
  /\ in_err = Some(<<"line is not a valid Line">>)
  /\ state.cached # DefaultConfig

\* Steps of the outbound task within one iteration, and from its end to the
\* next one: every end of an iteration (nothing to write, line written,
\* error stored) goes to the sleep, and the sleep goes to the device read.
OutCadence ==
  {<<"dev_read", "lock">>, <<"dev_read", "err">>, <<"lock", "locked">>,
   <<"locked", "write_out">>, <<"locked", "sleep">>,
   <<"write_out", "sleep">>, <<"write_out", "err">>,
   <<"err", "err_locked">>, <<"err_locked", "sleep">>,
   <<"sleep", "dev_read">>}

\* C11: the outbound loop never terminates and keeps its cadence: every
\* iteration, whether it succeeded or failed at the device read or at the
\* output, is followed by exactly one sleep and then by the next device
\* read; a failure causes no retry without the sleep and no second sleep.
C11_OutboundCadence ==
  /\ [](pc_out \in {"dev_read", "lock", "locked", "write_out", "err",
                    "err_locked", "sleep"})
  /\ [][pc_out' # pc_out => <<pc_out, pc_out'>> \in OutCadence]_vars
  /\ (pc_out # "sleep") ~> (pc_out = "sleep")
  /\ (pc_out = "sleep") ~> (pc_out = "dev_read")

\* The iteration whose output write failed has stored its error and is in
\* its sleep.
C11_Witness ==
  /\ pc_out = "sleep"
  /\ state.io.err = Some(<<"stdout write failed">>)

\* The decode of the codec check has run, on the encoded record or on one
\* with a byte altered.
Decoded == c_pc \in {"decoded", "decoded_altered"}

\* Offset of each field that DeviceConfiguration::read decodes with a check.
CheckedAt ==
  [mute |-> 4, clipguard |-> 5, phantom |-> 6, lowcut |-> 7,
   gain_lock |-> 28, clipguard_indicator |-> 32, lim |-> 33]

\* C12: decode succeeds if and only if each byte at offsets 4, 5, 6, 28, 32
\* and 33 is 0 or 1 and the little-endian u16 at offsets 7-8 is 0x0000,
\* 0x0001 or 0x0100; on success each boolean is its byte's value and lowcut
\* is Off, Cutoff080Hz, Cutoff120Hz respectively; any other value gives a
\* decode error and no Configuration.
C12_DecodeDomain ==
  Decoded =>
    LET res == c_res[1]
        u == c_buf[7] + 256 * c_buf[8]
        bools == DOMAIN CheckedAt \ {"lowcut"}
    IN  /\ res.ok <=> (/\ \A f \in bools : c_buf[CheckedAt[f]] \in {0, 1}
                        /\ u \in {0, 1, 256})
        /\ res.ok =>
             /\ \A f \in bools : res.val[f] = (c_buf[CheckedAt[f]] = 1)
             /\ res.val.lowcut = (CASE u = 0 -> "Off"
                                    [] u = 1 -> "Cutoff080Hz"
                                    [] u = 256 -> "Cutoff120Hz")
        /\ ~res.ok => DOMAIN res = {"ok", "err"}

\* A record whose lowcut bytes hold 0x0002 has been decoded: a decode error.
C12_Witness ==
  /\ c_pc = "decoded_altered"
  /\ c_buf[7] = 2
  /\ c_buf[8] = 0
  /\ ~c_res[1].ok

\* Name of each checked field as the peer knows it.
FieldName ==
  [mute |-> "mute", clipguard |-> "clipguard", phantom |-> "phantom",
   lowcut |-> "lowcut", gain_lock |-> "gainLock",
   clipguard_indicator |-> "clipguardIndicator", lim |-> "lim"]

\* C13: every decode error identifies both the name of the field whose
\* bytes were invalid and the offset of that field (for lowcut the text
\* "Lowcut Filter" is taken as its name).
C13_ErrorNamesField ==
  (Decoded /\ ~c_res[1].ok) =>
    \E f \in DOMAIN CheckedAt :
      /\ c_res[1].err[4] = CheckedAt[f]
      /\ \/ c_res[1].err[2] = FieldName[f]
         \/ (f = "lowcut" /\ c_res[1].err[2] = "Lowcut Filter")

\* A Line with at least one domain field present or with an error message.
HasContent(line) ==
  (\E f \in FieldSet : line[f] # None) \/ line.err # None

\* The step of the outbound task that runs update_device_info.
OutDiffStep == pc_out = "locked" /\ pc_out' # pc_out

\* C14: no empty Line is written to the output: on an outbound tick the Line
\* returned by update_device_info is handed to the output write if and only
\* if it has at least one domain field present or carries an error message.
C14_NoEmptyLine ==
  /\ [](pc_out = "write_out" => HasContent(out_line))
  /\ [][(pc_out' # pc_out /\ pc_out' = "write_out") => pc_out = "locked"]_vars
  /\ [][OutDiffStep =>
          (/\ out_line' = update_device_info(state, out_config[1]).line
           /\ pc_out' = "write_out" <=> HasContent(out_line')
           /\ pc_out' = "sleep" <=> ~HasContent(out_line'))]_vars

\* A tick whose diff found nothing has gone to its sleep without a write.
C14_Witness ==
  /\ pc_out = "sleep"
  /\ out_config # None
  /\ ~HasContent(out_line)
  /\ state.io.gain # None

\* C15: when an error message is pending at the time of a diff, the Line
\* returned carries that message in err and is handed to the output write
\* on that tick, even if every domain field is unchanged.
C15_PendingErrorEmitted ==
  [][(OutDiffStep /\ state.io.err # None) =>
       (/\ out_line'.err = state.io.err
        /\ state'.io.err = None
        /\ pc_out' = "write_out")]_vars

\* A Line that carries only an error message is being written.
C15_Witness ==
  /\ pc_out = "write_out"
  /\ out_line.err # None
  /\ \A f \in FieldSet : out_line[f] = None

\* C16: persistent and use_cached are absent from every Line that
\* update_device_info returns, whatever directives earlier merged Lines
\* carried, and update_device_info stores no directive in the snapshot.
C16_NoDirectives ==
  \A k \in 1..Len(p_hist) :
    p_hist[k].op = "diff" =>
      /\ p_hist[k].ret.persistent = None
      /\ p_hist[k].ret.use_cached = None
      /\ p_hist[k].after.io.persistent = None
      /\ p_hist[k].after.io.use_cached = None
      /\ p_hist[k].before.io.persistent = None
      /\ p_hist[k].before.io.use_cached = None

\* A Line with both directives true was merged, then a diff reported a
\* field.
C16_Witness ==
  /\ Len(p_hist) = 2
  /\ p_hist[1].op = "merge"
  /\ p_hist[1].arg.persistent = Some(TRUE)
  /\ p_hist[1].arg.use_cached = Some(TRUE)
  /\ p_hist[1].arg.gain # None
  /\ p_hist[2].op = "diff"
  /\ p_hist[2].ret.gain # None

\* `value` of a control_out for a Line's persistent directive.
ModeValueFor(persistent) == IF persistent = Some(TRUE) THEN 2 ELSE 0

\* C17: the device write of an inbound unit of work uses the persistent
\* mode (value 0x0002) if and only if the Line's persistent is present and
\* true; when it is false or absent the write uses the temporary mode
\* (value 0x0000).
C17_WriteMode ==
  /\ [](\A p \in {None, Some(FALSE), Some(TRUE)} :
          ModeAsU16(WriteMode(p)) = ModeValueFor(p))
  /\ [][dev_mode' # dev_mode =>
          (/\ pc_in = "dev_write"
           /\ dev_mode' = Some(ModeValueFor(in_line.persistent)))]_vars
  /\ [][(pc_in = "dev_write" /\ pc_in' = "read_line") =>
          dev_mode' = Some(ModeValueFor(in_line.persistent))]_vars

\* A persistent write has completed and the write of a Line without the
\* directive is pending.
C17_Witness ==
  /\ pc_in = "dev_write"
  /\ in_line.persistent = None
  /\ dev_mode = Some(2)

\* Operations k and k + 1 of the patch check are both diffs.
TwoDiffs(k) ==
  /\ k + 1 <= Len(p_hist)
  /\ p_hist[k].op = "diff"
  /\ p_hist[k + 1].op = "diff"

\* C18: two consecutive diffs with the same Configuration and no error
\* stored in between: the second returns the empty Line (no domain field,
\* no error) and leaves the snapshot unchanged, whatever the snapshot was
\* before the first.
C18_SecondDiffEmpty ==
  \A k \in 1..Len(p_hist) :
    (TwoDiffs(k) /\ p_hist[k + 1].arg = p_hist[k].arg) =>
      /\ \A f \in FieldSet : p_hist[k + 1].ret[f] = None
      /\ p_hist[k + 1].ret.err = None
      /\ p_hist[k + 1].after.io = p_hist[k + 1].before.io

\* The first diff ran on a snapshot that held other values and a stored
\* error and reported both; the second, with the same Configuration, is
\* the one the claim is about.
C18_Witness ==
  /\ TwoDiffs(1)
  /\ p_hist[1].before = store_err(TickedState, Some(<<"read control">>))
  /\ p_hist[1].arg.mute = TRUE
  /\ p_hist[1].ret.gain = Some(0)
  /\ p_hist[1].ret.err # None
  /\ p_hist[2].arg = p_hist[1].arg

\* Domain fields in which two Configurations differ.
Differing(c1, c2) == {f \in FieldSet : c1[f] # c2[f]}

\* C19: if diff is called with c1 and then with a c2 that differs from c1
\* in exactly one domain field f, the second result holds f with c2's value
\* and no other domain field.
C19_OneFieldChanged ==
  \A k \in 1..Len(p_hist) :
    (TwoDiffs(k)
       /\ Cardinality(Differing(p_hist[k].arg, p_hist[k + 1].arg)) = 1) =>
      \A f \in FieldSet :
        p_hist[k + 1].ret[f] =
          IF f \in Differing(p_hist[k].arg, p_hist[k + 1].arg)
          THEN Some(p_hist[k + 1].arg[f]) ELSE None

\* mute went from false to true between two diffs; the second result holds
\* mute: true.
C19_Witness ==
  /\ TwoDiffs(1)
  /\ p_hist[1].before = TickedState
  /\ p_hist[1].arg.mute = FALSE
  /\ p_hist[2].arg = [p_hist[1].arg EXCEPT !.mute = TRUE]
  /\ p_hist[2].ret.mute = Some(TRUE)
  /\ p_hist[2].ret.gain = None

\* C20: diff against a snapshot with every domain field absent returns all
\* 13 domain fields, equal to the Configuration's values (also where that
\* is the default value), and afterwards every domain field of the snapshot
\* is present and equal to the Configuration's value.
C20_FreshSnapshot ==
  \A k \in 1..Len(p_hist) :
    (p_hist[k].op = "diff"
       /\ \A f \in FieldSet : p_hist[k].before.io[f] = None) =>
      \A f \in FieldSet :
        /\ p_hist[k].ret[f] = Some(p_hist[k].arg[f])
        /\ p_hist[k].after.io[f] = Some(p_hist[k].arg[f])

\* A Configuration with lowcut set and gain at its default was diffed
\* against the snapshot of UiState::default().
C20_Witness ==
  /\ Len(p_hist) >= 1
  /\ p_hist[1].op = "diff"
  /\ p_hist[1].before = DefaultUiState
  /\ p_hist[1].arg.lowcut = "Cutoff120Hz"
  /\ p_hist[1].ret.gain = Some(0)
  /\ p_hist[1].ret.lowcut = Some("Cutoff120Hz")
  /\ Cardinality(FieldSet) = 13

\* Domain fields present in a Line.
Present(line) == {f \in FieldSet : line[f] # None}

\* C21: merging a Line that holds only gain g and mute m into the default
\* Configuration and encoding the result gives a record whose bytes 0-1 are
\* g as little-endian u16 (7680 gives 0x00, 0x1E), whose byte 4 is 1 iff m,
\* and whose every other byte is that of the encoded default Configuration.
C21_GainMuteRecord ==
  \A k \in 1..Len(p_hist) :
    (/\ p_hist[k].op = "merge"
     /\ p_hist[k].before.cached = DefaultConfig
     /\ Present(p_hist[k].arg) = {"gain", "mute"}) =>
      LET g == p_hist[k].arg.gain[1]
          m == p_hist[k].arg.mute[1]
          rec == write_config(p_hist[k].ret)
          def == write_config(DefaultConfig)
      IN  /\ rec[0] = g % 256
          /\ rec[1] = g \div 256
          /\ g = 7680 => (rec[0] = 0 /\ rec[1] = 30)
          /\ rec[4] = (IF m THEN 1 ELSE 0)
          /\ \A i \in Offsets \ {0, 1, 4} : rec[i] = def[i]

\* The UserConfig of the test (gain 7680, mute true) was merged into the
\* default Configuration.
C21_Witness ==
  /\ Len(p_hist) >= 1
  /\ p_hist[1].op = "merge"
  /\ p_hist[1].arg = TestPatch
  /\ p_hist[1].ret.gain = 7680
  /\ p_hist[1].ret.mute = TRUE
  /\ write_config(p_hist[1].ret)[1] = 30

\* C22: for every Configuration, encode sets byte 12 to 1 if mix is 41 or
\* 47 and to 0 for every other mix in 0..255, and sets byte 13 to mix.
C22_MixFlag ==
  /\ c_pc = "encoded" =>
       /\ c_buf[12] = (IF c_cfg.mix \in {41, 47} THEN 1 ELSE 0)
       /\ c_buf[13] = c_cfg.mix
  /\ c_pc = "start" =>
       \A mix \in 0..255 :
         LET rec == DeviceConfiguration_write([c_cfg EXCEPT !.mix = mix],
                                              c_buf)
         IN  /\ rec[12] = (IF mix \in {41, 47} THEN 1 ELSE 0)
             /\ rec[13] = mix

\* A Configuration with mix 41 has been encoded into a buffer that held
\* 255 in every byte.
C22_Witness ==
  /\ c_pc = "encoded"
  /\ c_cfg.mix = 41
  /\ c_buf[12] = 1
  /\ c_buf[13] = 41

\* C23: merge is idempotent: merging the same Line a second time gives the
\* Configuration that merging it once gave.
C23_MergeIdempotent ==
  \A k \in 1..Len(p_hist) :
    p_hist[k].op = "merge" =>
      /\ merge(p_hist[k].ret, p_hist[k].arg) = p_hist[k].ret
      /\ update_state(p_hist[k].after, p_hist[k].arg).config = p_hist[k].ret
      /\ (/\ k + 1 <= Len(p_hist)
          /\ p_hist[k + 1].op = "merge"
          /\ p_hist[k + 1].arg = p_hist[k].arg) =>
            /\ p_hist[k + 1].ret = p_hist[k].ret
            /\ p_hist[k + 1].after = p_hist[k].after

\* The same Line, which changes the Configuration, was merged twice.
C23_Witness ==
  /\ Len(p_hist) = 2
  /\ p_hist[1].op = "merge"
  /\ p_hist[2].op = "merge"
  /\ p_hist[2].arg = p_hist[1].arg
  /\ p_hist[1].arg.mute = Some(TRUE)
  /\ p_hist[1].ret # p_hist[1].before.cached

\* C27: the snapshot records, for each domain field, the last value
\* communicated with the peer in either direction: after a Line that
\* carries field f with value v has been received and applied, the
\* snapshot's value for f is v.
C27_SnapshotTracksInbound ==
  \A k \in 1..Len(p_hist) :
    p_hist[k].op = "merge" =>
      \A f \in Present(p_hist[k].arg) :
        p_hist[k].after.io[f] = p_hist[k].arg[f]

\* The three bytes of a record at OFFSET.
Triple(buf, OFFSET) == <<buf[OFFSET], buf[OFFSET + 1], buf[OFFSET + 2]>>

\* C28: for every Configuration and every prior content of the buffer,
\* encode overwrites all 34 bytes and gives bytes 2-3 = 0x00 0xEC, byte 11
\* = 0, byte 14 = 1, byte 27 = 1 and three copies of color_gen at 18-20,
\* 21-23 and 24-26.
C28_EncodeTotal ==
  c_pc = "encoded" =>
    /\ c_buf = DeviceConfiguration_write(c_cfg, ZeroBuf)
    /\ c_buf = DeviceConfiguration_write(c_cfg, [i \in Offsets |-> 255])
    /\ c_buf[2] = 0
    /\ c_buf[3] = 236
    /\ c_buf[11] = 0
    /\ c_buf[14] = 1
    /\ c_buf[27] = 1
    /\ Triple(c_buf, 18) = c_cfg.color_gen
    /\ Triple(c_buf, 21) = c_cfg.color_gen
    /\ Triple(c_buf, 24) = c_cfg.color_gen

\* A Configuration whose color_gen has three different bytes has been
\* encoded.
C28_Witness ==
  /\ c_pc = "encoded"
  /\ c_cfg.color_gen = <<255, 0, 16>>
  /\ Triple(c_buf, 24) = <<255, 0, 16>>
  /\ c_buf[3] = 236

\* Offsets that DeviceConfiguration::read does not read.
Unread == {2, 3, 11, 12, 14, 27} \cup (21..26)

\* C29: the outcome of decode does not depend on the bytes at offsets 2, 3,
\* 11, 12, 14, 21-26 and 27: a record that differs from the decoded one
\* only there fails with the same error or decodes to the same
\* Configuration, and color_gen is taken from bytes 18-20.
C29_UnreadBytes ==
  Decoded =>
    /\ \A i \in Unread, b \in ByteSamples :
         DeviceConfiguration_read([c_buf EXCEPT ![i] = b]) = c_res[1]
    /\ \A b \in ByteSamples :
         DeviceConfiguration_read(
           [i \in Offsets |-> IF i \in Unread THEN b ELSE c_buf[i]]) = c_res[1]
    /\ c_res[1].ok => c_res[1].val.color_gen = Triple(c_buf, 18)

\* A record whose second copy of color_gen differs from the first has been
\* decoded to a Configuration.
C29_Witness ==
  /\ c_pc = "decoded_altered"
  /\ c_buf[21] # c_buf[18]
  /\ c_res[1].ok
  /\ c_res[1].val.color_gen = <<255, 0, 16>>

\* Offsets of each domain field in the record (the first copy for
\* color_gen).
FieldOffsets ==
  [gain |-> {0, 1}, mute |-> {4}, clipguard |-> {5}, phantom |-> {6},
   lowcut |-> {7, 8}, volume |-> {9, 10}, mix |-> {13},
   color_mute |-> 15..17, color_gen |-> 18..20, gain_lock |-> {28},
   color_gain_reduction |-> 29..31, clipguard_indicator |-> {32},
   lim |-> {33}]

\* C24: in an inbound unit of work without use_cached that reads record R
\* and writes record W, every domain field absent from the Line has the
\* same bytes in W as in R; in particular a Line without lowcut leaves the
\* lowcut code at bytes 7-8 as it was, for each of the three valid codes.
C24_AbsentFieldsKept ==
  [][(pc_in = "dev_write" /\ ~UseCached /\ dev' # dev) =>
       \A f \in FieldSet \ Present(in_line) :
         \A i \in FieldOffsets[f] : dev'[i] = dev[i]]_vars

\* C25: each outbound diff result holds exactly the domain fields whose
\* value in the record read on that tick differs from the value last
\* written to the output for that field, or that were never written to the
\* output, also when an earlier tick's output write failed.
C25_DiffSinceLastWritten ==
  [][OutDiffStep =>
       \A f \in FieldSet :
         (out_line'[f] # None) <=> (out_sent[f] # Some(out_config[1][f]))]_vars

\* C26: the outbound loop reports what the device returned: the
\* Configuration diffed on a tick is the one decoded from the record read on
\* that tick, and every domain value in the Line handed to the output is
\* that Configuration's value, never one of state.cached.
C26_GroundTruth ==
  /\ [](pc_out \in {"lock", "locked", "write_out"} => out_config # None)
  /\ [][(out_config' # out_config /\ out_config' # None) =>
          (/\ pc_out = "dev_read"
           /\ out_config' = Some(DeviceConfiguration_read(dev).val))]_vars
  /\ [][OutDiffStep =>
          \A f \in FieldSet :
            out_line'[f] \in {None, Some(out_config[1][f])}]_vars
  /\ [](pc_out = "write_out" =>
          \A f \in FieldSet : out_line[f] \in {None, Some(out_config[1][f])})

\* The inbound task has merged mute = true and its device write is pending;
\* the Line being written reports mute = false, as the device returned it.
C26_Witness ==
  /\ pc_in = "dev_write"
  /\ in_merged # None
  /\ in_merged[1].mute = TRUE
  /\ pc_out = "write_out"
  /\ out_line.mute = Some(FALSE)
  /\ dev[4] = 0

\* The live read of task `who` completed before the read whose result
\* state.cached holds.
Older(order, who) ==
  \E i, j \in 1..Len(order) :
    i < j /\ order[i] = who /\ order[j] = "cached"

\* C30: state.cached is never replaced by an older device read: whenever a
\* task stores in state.cached the result of a device read that differs from
\* what state.cached holds, that read completed no earlier than the read
\* whose result state.cached held.
C30_NoOlderRead ==
  [][/\ (/\ pc_in = "locked"
          /\ InStep
          /\ in_config # None
          /\ in_config[1] # state.cached) => ~Older(read_order, "in")
     /\ (OutDiffStep /\ out_config[1] # state.cached) =>
          ~Older(read_order, "out")]_vars

\* Positions of the diff check's history where a diff returned an error
\* message, and positions where an error handler stored one.
Reported == {k \in 1..Len(p_hist) :
               p_hist[k].op = "diff" /\ p_hist[k].ret.err # None}

Caught == {k \in 1..Len(p_hist) : p_hist[k].op = "error"}

\* C31: each caught error is reported at most once: a diff that attaches
\* the pending message to its result leaves no pending message, a diff that
\* directly follows a diff returns no error, and the diffs that returned an
\* error are never more than the errors caught, counting the one that was
\* pending at the start.
C31_ErrorReportedOnce ==
  /\ \A k \in 1..Len(p_hist) :
       p_hist[k].op = "diff" =>
         /\ p_hist[k].ret.err = p_hist[k].before.io.err
         /\ p_hist[k].after.io.err = None
         /\ (k > 1 /\ p_hist[k - 1].op = "diff") => p_hist[k].ret.err = None
  /\ \A k \in 2..Len(p_hist) : p_hist[k].before = p_hist[k - 1].after
  /\ Len(p_hist) > 0 =>
       Cardinality(Reported) <=
         Cardinality(Caught) + (IF p_hist[1].before.io.err # None THEN 1 ELSE 0)

\* A diff returned the pending error message and the diff after it, with no
\* error caught in between, returned none.
C31_Witness ==
  /\ Len(p_hist) = 2
  /\ p_hist[1].op = "diff"
  /\ p_hist[1].ret.err # None
  /\ p_hist[2].op = "diff"
  /\ p_hist[2].ret.err = None

====
